---- MODULE Spec2Model ----
(***************************************************************************)
(* A model of md2html (src/md2html.py): one run of main(), from argument   *)
(* parsing to process exit, over a small file system.                      *)
(*                                                                         *)
(* Text is a sequence of one-character strings, so "a.md" is               *)
(* <<"a", ".", "m", "d">>.  Longer strings inside a sequence ("Error: ",   *)
(* "Converted to ", ...) are the literal pieces the program prints.        *)
(* pathlib is modelled as CPython 3.11's PurePosixPath behaves.            *)
(***************************************************************************)
EXTENDS Integers, Sequences, FiniteSets, TLC

(***************************************************************************)
(* Bounds and the inputs of a run.                                         *)
(***************************************************************************)
\* longest generated command-line token
MaxLen == 3

\* the characters generated tokens are made of
Alpha == {"a", ".", "/", "-"}

\* Python's None (no one-character string, so it is no text)
None == <<"None">>

RECURSIVE SeqsUpTo(_)
SeqsUpTo(n) ==
    IF n = 0 THEN {<<>>}
    ELSE LET shorter == SeqsUpTo(n - 1)
         IN  shorter \cup {Append(s, c) : s \in {t \in shorter : Len(t) = n - 1}, c \in Alpha}

\* every token over Alpha up to MaxLen characters
PathArgs == SeqsUpTo(MaxLen)

S_html == <<".", "h", "t", "m", "l">>
S_out_html == <<"o", "u", "t", ".", "h", "t", "m", "l">>
S_dash == <<"-">>
S_dd == <<"-", "-">>
S_h == <<"-", "h">>
S_help == <<"-", "-", "h", "e", "l", "p">>
NL == <<"\n">>

\* longer tokens of interest: the names the tests and the usage text use
ExtraPaths ==
    { <<"a", ".", "m", "d">>,
      <<"a", ".", "t", "x", "t">>,
      <<"a", ".", "h", "t", "m", "l">>,
      <<".", "/", "a", ".", "m", "d">>,
      <<"d", "/", "a", ".", "m", "d">>,
      <<"d", "/", "/", "a", ".", "m", "d">>,
      <<"a", ".", "b", ".", "m", "d">>,
      <<"/", "/", "a", ".", "m", "d">> }

\* what the second positional argument is drawn from
OutTokens ==
    { S_dash, <<>>, <<"a">>, <<".">>, <<"a", ".", "m", "d">>,
      <<"o", ".", "h", "t", "m", "l">>, <<".", "/", "o">> }

(***************************************************************************)
(* Text helpers.                                                           *)
(***************************************************************************)
Range(s) == {s[i] : i \in 1..Len(s)}

\* str.lstrip("/")
RECURSIVE LStripSep(_)
LStripSep(s) == IF s # <<>> /\ s[1] = "/" THEN LStripSep(Tail(s)) ELSE s

\* str.split("/"): the pieces between separators, empty pieces included
RECURSIVE SplitSep(_)
SplitSep(s) ==
    IF \A i \in 1..Len(s) : s[i] # "/" THEN <<s>>
    ELSE LET k == CHOOSE i \in 1..Len(s) : s[i] = "/" /\ \A j \in 1..(i - 1) : s[j] # "/"
         IN  <<SubSeq(s, 1, k - 1)>> \o SplitSep(SubSeq(s, k + 1, Len(s)))

\* "/".join(parts)
RECURSIVE JoinSep(_)
JoinSep(parts) ==
    IF parts = <<>> THEN <<>>
    ELSE IF Len(parts) = 1 THEN parts[1]
    ELSE parts[1] \o <<"/">> \o JoinSep(Tail(parts))

\* str.rfind("."), 1-based, 0 when there is none
RFindDot(s) ==
    IF \A i \in 1..Len(s) : s[i] # "." THEN 0
    ELSE CHOOSE i \in 1..Len(s) : s[i] = "." /\ \A j \in (i + 1)..Len(s) : s[j] # "."

(***************************************************************************)
(* pathlib.Path as md2html uses it.                                        *)
(***************************************************************************)
\* Path(s): the root ("", "/" or "//") and the components, with empty and
\* "." components dropped
Path(s) ==
    LET rel == LStripSep(s)
        lead == Len(s) - Len(rel)
        root == IF lead = 0 THEN <<>> ELSE IF lead = 2 THEN <<"/", "/">> ELSE <<"/">>
    IN  [root |-> root,
         parts |-> SelectSeq(SplitSep(rel), LAMBDA x : x # <<>> /\ x # <<".">>)]

\* str(path)
PathStr(p) ==
    IF p.root = <<>> /\ p.parts = <<>> THEN <<".">>
    ELSE p.root \o JoinSep(p.parts)

\* path.name: the final component, empty for "." and "/"
PathName(p) == IF p.parts = <<>> THEN <<>> ELSE p.parts[Len(p.parts)]

\* the suffix of a final component: from its last dot, unless that dot is
\* the first or the last character
NameSuffix(name) ==
    LET i == RFindDot(name)
    IN  IF 1 < i /\ i < Len(name) THEN SubSeq(name, i, Len(name)) ELSE <<>>

\* path.with_suffix(suffix): raises ValueError on an empty name
WithSuffix(p, suffix) ==
    LET name == PathName(p)
        old == NameSuffix(name)
        new == SubSeq(name, 1, Len(name) - Len(old)) \o suffix
    IN  IF name = <<>>
        THEN [ok |-> FALSE, exc |-> "ValueError", val |-> <<>>]
        ELSE [ok |-> TRUE, exc |-> "none",
              val |-> [root |-> p.root,
                       parts |-> SubSeq(p.parts, 1, Len(p.parts) - 1) \o <<new>>]]

\* the key of the file a path string names: its pathlib form
Norm(s) == PathStr(Path(s))

(***************************************************************************)
(* The functions of md2html.py.                                            *)
(***************************************************************************)
\* Python truthiness of Optional[str]: None and "" are false
Truthy(x) == x # None /\ x # <<>>

\* mutant: the suffix is replaced on the string as typed
RawSuffixGetDefaultOutputPath(input_path) ==
    IF Truthy(input_path) /\ input_path # S_dash
    THEN IF PathName(Path(input_path)) = <<>>
         THEN [ok |-> FALSE, exc |-> "ValueError", val |-> <<>>]
         ELSE [ok |-> TRUE, exc |-> "none",
               val |-> SubSeq(input_path, 1,
                              Len(input_path) - Len(NameSuffix(input_path))) \o S_html]
    ELSE [ok |-> TRUE, exc |-> "none", val |-> S_out_html]

get_default_output_path(input_path) ==
    IF Truthy(input_path) /\ input_path # S_dash
    THEN LET r == WithSuffix(Path(input_path), S_html)
         IN  IF r.ok THEN [ok |-> TRUE, exc |-> "none", val |-> PathStr(r.val)]
             ELSE [ok |-> FALSE, exc |-> r.exc, val |-> <<>>]
    ELSE [ok |-> TRUE, exc |-> "none", val |-> S_out_html]

\* the rendering engine: an opaque text -> html function of the markdown
\* library; empty text gives empty html, anything else is wrapped in tags
convert_markdown_to_html(markdown_text) ==
    IF markdown_text = <<>> THEN <<>>
    ELSE <<"<", "p", ">">> \o markdown_text \o <<"<", "/", "p", ">">>

\* file contents
DocA == <<"#", "T">>
DocOld == <<"o", "l", "d">>
DocZ == <<"z", "z">>
\* bytes that are not UTF-8
DocBad == <<"\\xff">>
Decodable(data) == "\\xff" \notin Range(data)

File(data) == [kind |-> "file", data |-> data]
Dir == [kind |-> "dir", data |-> <<>>]
Absent == [kind |-> "absent", data |-> <<>>]

\* the file system: a function from path keys to files and directories
Lookup(f, k) == IF k \in DOMAIN f THEN f[k] ELSE Absent
Put(f, k, v) == [x \in DOMAIN f \cup {k} |-> IF x = k THEN v ELSE f[x]]

Exc(type, msg) == [type |-> type, msg |-> msg]
NoExc == Exc("none", <<>>)

\* mutant: the message names the path as pathlib normalised it
NormFileNotFoundMessage(input_path) ==
    <<"File '">> \o Norm(input_path) \o <<"' not found">>

FileNotFoundMessage(input_path) ==
    <<"File '">> \o input_path \o <<"' not found">>

\* mutant: only None and "-" mean standard input, "" is a path
StrictReadsStdin(input_path) == input_path = None \/ input_path = S_dash

\* read_input's first test: standard input or a path
ReadsStdin(input_path) == ~Truthy(input_path) \/ input_path = S_dash

\* read_input(input_path): the outcomes it can have in file system f with
\* standard input holding sin.  A read of an existing file can also fail
\* in the operating system (permissions, disk).
read_input(input_path, f, sin) ==
    IF ReadsStdin(input_path)
    THEN { IF Decodable(sin)
           THEN [ok |-> TRUE, text |-> sin, exc |-> NoExc, consumed |-> TRUE]
           ELSE [ok |-> FALSE, text |-> None,
                 exc |-> Exc("UnicodeDecodeError", <<"codec">>), consumed |-> TRUE] }
    ELSE LET e == Lookup(f, Norm(input_path))
             fault == [ok |-> FALSE, text |-> None,
                       exc |-> Exc("OSError", <<"[Errno]">>), consumed |-> FALSE]
         IN  IF e.kind = "absent"
             THEN { [ok |-> FALSE, text |-> None,
                     exc |-> Exc("FileNotFoundError", FileNotFoundMessage(input_path)),
                     consumed |-> FALSE] }
             ELSE IF e.kind = "dir" THEN {fault}
             ELSE { IF Decodable(e.data)
                    THEN [ok |-> TRUE, text |-> e.data, exc |-> NoExc, consumed |-> FALSE]
                    ELSE [ok |-> FALSE, text |-> None,
                          exc |-> Exc("UnicodeDecodeError", <<"codec">>),
                          consumed |-> FALSE],
                    fault }

\* mutant: the file is opened for appending
AppendFileAfterWrite(old, h) == File(old.data \o h)

\* Path.write_text: the file is created or replaced
FileAfterWrite(old, h) == File(h)

\* mutant: the html goes to the default destination
DefaultWriteTarget(output_path) == Norm(S_out_html)

\* the file write_output opens
WriteTarget(output_path) == Norm(output_path)

\* write_output(html, output_path): the outcomes it can have.  A write to
\* a directory fails; any write can fail in the operating system, before
\* the file is opened or after it was truncated.
write_output(h, output_path, f, sout) ==
    IF output_path = S_dash
    THEN { [ok |-> TRUE, fs |-> f, stdout |-> Append(sout, h \o NL), exc |-> NoExc] }
    ELSE LET k == WriteTarget(output_path)
             e == Lookup(f, k)
             err == Exc("OSError", <<"[Errno]">>)
         IN  IF e.kind = "dir"
             THEN { [ok |-> FALSE, fs |-> f, stdout |-> sout, exc |-> err] }
             ELSE { [ok |-> TRUE, fs |-> Put(f, k, FileAfterWrite(e, h)),
                     stdout |-> sout, exc |-> NoExc],
                    [ok |-> FALSE, fs |-> f, stdout |-> sout, exc |-> err],
                    [ok |-> FALSE, fs |-> Put(f, k, File(<<>>)),
                     stdout |-> sout, exc |-> err] }

(***************************************************************************)
(* argparse, for the parser main() builds: [-h] [input] [output].          *)
(***************************************************************************)
\* a token argparse takes for an option (no generated token holds a digit
\* or a space, so none is a negative number)
IsOption(t) == Len(t) >= 2 /\ t[1] = "-"

\* parser.parse_args(): help, a usage error, or the two arguments.  A
\* leading "--" makes every later token positional.
parse_args(av) ==
    LET dd == av # <<>> /\ av[1] = S_dd
        pos == IF dd THEN Tail(av) ELSE av
    IN  IF ~dd /\ \E i \in 1..Len(av) : av[i] \in {S_h, S_help}
        THEN [status |-> "help", input |-> None, output |-> None]
        ELSE IF (~dd /\ \E i \in 1..Len(av) : IsOption(av[i])) \/ Len(pos) > 2
        THEN [status |-> "error", input |-> None, output |-> None]
        ELSE [status |-> "ok",
              input |-> IF Len(pos) >= 1 THEN pos[1] ELSE None,
              output |-> IF Len(pos) >= 2 THEN pos[2] ELSE None]

(***************************************************************************)
(* The command lines and file systems a run starts from.                   *)
(***************************************************************************)
InTokens == PathArgs \cup ExtraPaths

\* "--" is generated only as the leading separator
ArgvSet ==
    {<<>>}
    \cup {<<i>> : i \in InTokens}
    \cup {<<i, o>> : i \in InTokens \ {S_dd}, o \in OutTokens}
    \cup {<<S_dd, i>> : i \in {t \in InTokens : IsOption(t)} \ {S_dd}}
    \cup { <<S_help>>, <<<<"a", ".", "m", "d">>, S_h>>,
           <<<<"a", ".", "m", "d">>, <<"a">>, <<"a">>>> }

\* a file no command line names
Bystander == <<"z">>

\* the file the command line names as input, if any
InKeys(av) ==
    LET r == parse_args(av)
    IN  IF r.status = "ok" /\ ~ReadsStdin(r.input) THEN {Norm(r.input)} ELSE {}

\* the file the run would write, if any
OutKeys(av) ==
    LET r == parse_args(av)
        d == get_default_output_path(r.input)
    IN  IF r.status # "ok" THEN {}
        ELSE IF r.output = None THEN (IF d.ok THEN {Norm(d.val)} ELSE {})
        ELSE IF r.output = S_dash THEN {}
        ELSE {Norm(r.output)}

\* what can be at a path before the run: "." and "/" are directories, a
\* path ending in ".." is a directory or does not resolve
EntryChoices(k, isInput) ==
    LET name == PathName(Path(k))
    IN  IF name = <<>> THEN {Dir}
        ELSE IF name = <<".", ".">> THEN {Absent, Dir}
        ELSE IF isInput THEN {Absent, Dir, File(DocA), File(DocBad)}
        ELSE {Absent, Dir, File(DocOld)}

InitialFS(av) ==
    LET keys == InKeys(av) \cup OutKeys(av)
        all == {Absent, Dir, File(DocA), File(DocBad), File(DocOld)}
        total == {f \in [keys -> all] :
                     \A k \in keys : f[k] \in EntryChoices(k, k \in InKeys(av))}
    IN  { [k \in {x \in keys : f[x].kind # "absent"} \cup {Bystander} |->
              IF k = Bystander THEN File(DocZ) ELSE f[k]] : f \in total }

InitialStdin(av) ==
    LET r == parse_args(av)
    IN  IF r.status = "ok" /\ ReadsStdin(r.input) THEN {DocA, <<>>, DocBad} ELSE {DocA}

(***************************************************************************)
(* The state of one run of main().                                         *)
(***************************************************************************)
VARIABLES
    argv,            \* sys.argv[1:]
    pc,              \* the statement main() is at
    args_input,      \* args.input
    args_output,     \* args.output
    output_path,     \* main's local output_path
    markdown_text,   \* main's local markdown_text
    html,            \* main's local html
    exc,             \* the exception in flight inside the try block
    stdin,           \* what standard input holds
    stdin_consumed,  \* standard input has been read
    stdout,          \* the writes to standard output, in order
    stderr,          \* the writes to standard error, in order
    fs,              \* the file system
    exit_code,       \* the process's exit status, -1 while it runs
    uncaught,        \* the exception that left main(), "none" if none did
    interrupted,     \* a SIGINT was delivered
    steps,           \* the steps main() has started, in order
    fs0              \* the file system before the run

vars == <<argv, pc, args_input, args_output, output_path, markdown_text, html, exc,
          stdin, stdin_consumed, stdout, stderr, fs, exit_code, uncaught,
          interrupted, steps, fs0>>

Init ==
    /\ argv \in ArgvSet
    /\ pc = "parse"
    /\ args_input = None
    /\ args_output = None
    /\ output_path = None
    /\ markdown_text = None
    /\ html = None
    /\ exc = NoExc
    /\ stdin \in InitialStdin(argv)
    /\ stdin_consumed = FALSE
    /\ stdout = <<>>
    /\ stderr = <<>>
    /\ fs \in InitialFS(argv)
    /\ exit_code = -1
    /\ uncaught = "none"
    /\ interrupted = FALSE
    /\ steps = <<>>
    /\ fs0 = fs

\* an exception leaves main(): the interpreter prints the traceback and the
\* process ends, by SIGINT (status 130) for KeyboardInterrupt, else with 1
Crash(type) ==
    /\ pc' = "done"
    /\ uncaught' = type
    /\ stderr' = Append(stderr, <<"Traceback", type>>)
    /\ exit_code' = IF type = "KeyboardInterrupt" THEN 130 ELSE 1

\* sys.exit(code)
Exit(code) ==
    /\ pc' = "done"
    /\ exit_code' = code
    /\ uncaught' = uncaught

\* main, line 109: args = parser.parse_args()
ParseArgs ==
    /\ pc = "parse"
    /\ steps' = Append(steps, "parse")
    /\ LET r == parse_args(argv)
       IN  \/ /\ r.status = "help"
              /\ stdout' = Append(stdout, <<"usage">>)
              /\ Exit(0)
              /\ UNCHANGED <<stderr, args_input, args_output>>
           \/ /\ r.status = "error"
              /\ stderr' = Append(stderr, <<"usage", "error: unrecognized arguments">>)
              /\ Exit(2)
              /\ UNCHANGED <<stdout, args_input, args_output>>
           \/ /\ r.status = "ok"
              /\ args_input' = r.input
              /\ args_output' = r.output
              /\ pc' = "derive"
              /\ UNCHANGED <<stdout, stderr, exit_code, uncaught>>
    /\ UNCHANGED <<argv, output_path, markdown_text, html, exc, stdin, stdin_consumed,
                   fs, interrupted, fs0>>

\* main, lines 112-115: the effective output path, computed before the try
DeriveOutputPath ==
    /\ pc = "derive"
    /\ steps' = Append(steps, "derive")
    /\ IF args_output = None
       THEN LET r == get_default_output_path(args_input)
            IN  IF r.ok
                THEN /\ output_path' = r.val
                     /\ pc' = "read"
                     /\ UNCHANGED <<stderr, exit_code, uncaught>>
                ELSE /\ Crash(r.exc)
                     /\ UNCHANGED output_path
       ELSE /\ output_path' = args_output
            /\ pc' = "read"
            /\ UNCHANGED <<stderr, exit_code, uncaught>>
    /\ UNCHANGED <<argv, args_input, args_output, markdown_text, html, exc, stdin,
                   stdin_consumed, stdout, fs, interrupted, fs0>>

\* main, line 119: markdown_text = read_input(args.input)
ReadInput ==
    /\ pc = "read"
    /\ steps' = Append(steps, "read")
    /\ \E r \in read_input(args_input, fs, stdin) :
          /\ stdin_consumed' = r.consumed
          /\ IF r.ok
             THEN /\ markdown_text' = r.text
                  /\ pc' = "convert"
                  /\ UNCHANGED exc
             ELSE /\ exc' = r.exc
                  /\ pc' = "except"
                  /\ UNCHANGED markdown_text
    /\ UNCHANGED <<argv, args_input, args_output, output_path, html, stdin, stdout,
                   stderr, fs, exit_code, uncaught, interrupted, fs0>>

\* main, line 122: html = convert_markdown_to_html(markdown_text); the
\* library can raise (deep nesting exhausts the recursion limit)
Convert ==
    /\ pc = "convert"
    /\ steps' = Append(steps, "convert")
    /\ \/ /\ html' = convert_markdown_to_html(markdown_text)
          /\ pc' = "write"
          /\ UNCHANGED exc
       \/ /\ markdown_text # <<>>
          /\ exc' = Exc("RecursionError", <<"maximum recursion depth exceeded">>)
          /\ pc' = "except"
          /\ UNCHANGED html
    /\ UNCHANGED <<argv, args_input, args_output, output_path, markdown_text, stdin,
                   stdin_consumed, stdout, stderr, fs, exit_code, uncaught,
                   interrupted, fs0>>

\* main, line 125: write_output(html, output_path)
WriteOutput ==
    /\ pc = "write"
    /\ steps' = Append(steps, "write")
    /\ \E r \in write_output(html, output_path, fs, stdout) :
          /\ fs' = r.fs
          /\ stdout' = r.stdout
          /\ IF r.ok
             THEN pc' = "confirm" /\ UNCHANGED exc
             ELSE pc' = "except" /\ exc' = r.exc
    /\ UNCHANGED <<argv, args_input, args_output, output_path, markdown_text, html,
                   stdin, stdin_consumed, stderr, exit_code, uncaught, interrupted, fs0>>

\* mutant: the confirmation is printed for every destination
AlwaysConfirms(path) == TRUE

\* main, line 127: the test that guards the confirmation
Confirms(path) == path # S_dash

\* main, lines 127-128: the confirmation line; the print can fail when
\* standard output is closed
Confirm ==
    /\ pc = "confirm"
    /\ steps' = Append(steps, "confirm")
    /\ \/ /\ Confirms(output_path)
          /\ stdout' = Append(stdout, <<"Converted to ">> \o output_path \o NL)
          /\ pc' = "return"
          /\ UNCHANGED exc
       \/ /\ Confirms(output_path)
          /\ exc' = Exc("OSError", <<"[Errno]">>)
          /\ pc' = "except"
          /\ UNCHANGED stdout
       \/ /\ ~Confirms(output_path)
          /\ pc' = "return"
          /\ UNCHANGED <<stdout, exc>>
    /\ UNCHANGED <<argv, args_input, args_output, output_path, markdown_text, html,
                   stdin, stdin_consumed, stderr, fs, exit_code, uncaught,
                   interrupted, fs0>>

\* main returns: the try body ended without an exception
Return ==
    /\ pc = "return"
    /\ Exit(0)
    /\ UNCHANGED <<argv, args_input, args_output, output_path, markdown_text, html, exc,
                   stdin, stdin_consumed, stdout, stderr, fs, interrupted, steps, fs0>>

\* the statements of main() in program order
Order == <<"parse", "derive", "read", "convert", "write", "confirm">>

\* the exception types the first two except clauses match
CaughtAsError == {"FileNotFoundError", "OSError"}

\* mutant: a failed read or write is tried again, once
RetryingHandleException ==
    /\ pc = "except"
    /\ IF exc.type = "OSError" /\ Len(steps) <= Len(Order)
       THEN /\ pc' = "read"
            /\ exc' = NoExc
            /\ UNCHANGED <<stderr, exit_code, uncaught>>
       ELSE /\ stderr' = Append(stderr, <<"Error: ">> \o exc.msg \o NL)
            /\ Exit(1)
            /\ UNCHANGED exc
    /\ UNCHANGED <<argv, args_input, args_output, output_path, markdown_text, html,
                   stdin, stdin_consumed, stdout, fs, interrupted, steps, fs0>>

\* main, lines 130-138: the except clauses
HandleException ==
    /\ pc = "except"
    /\ \/ /\ exc.type \in CaughtAsError
          /\ stderr' = Append(stderr, <<"Error: ">> \o exc.msg \o NL)
          /\ Exit(1)
       \/ /\ exc.type = "KeyboardInterrupt"
          /\ stderr' = Append(stderr, <<"\n", "Interrupted", "\n">>)
          /\ Exit(1)
       \/ /\ exc.type \notin CaughtAsError \cup {"KeyboardInterrupt"}
          /\ Crash(exc.type)
    /\ UNCHANGED <<argv, args_input, args_output, output_path, markdown_text, html, exc,
                   stdin, stdin_consumed, stdout, fs, interrupted, steps, fs0>>

\* the statements the try block covers
InTry == {"read", "convert", "write", "confirm", "return"}

\* SIGINT arrives: KeyboardInterrupt is raised at the statement main() is at
Interrupt ==
    /\ pc # "done"
    /\ interrupted' = TRUE
    /\ \/ /\ pc \in InTry
          /\ exc' = Exc("KeyboardInterrupt", <<>>)
          /\ pc' = "except"
          /\ UNCHANGED <<stderr, exit_code, uncaught>>
       \/ /\ pc \notin InTry
          /\ Crash("KeyboardInterrupt")
          /\ UNCHANGED exc
    /\ UNCHANGED <<argv, args_input, args_output, output_path, markdown_text, html,
                   stdin, stdin_consumed, stdout, fs, steps, fs0>>

Next ==
    \/ ParseArgs
    \/ DeriveOutputPath
    \/ ReadInput
    \/ Convert
    \/ WriteOutput
    \/ Confirm
    \/ Return
    \/ HandleException
    \/ Interrupt

Spec == Init /\ [][Next]_vars

(***************************************************************************)
(* Vocabulary of the properties.                                           *)
(***************************************************************************)
Ran(step) == step \in Range(steps)
Parsed == Ran("parse") /\ parse_args(argv).status = "ok"
IsPathInput(x) == x \notin {None, <<>>, S_dash}
ConfirmLine(path) == <<"Converted to ">> \o path \o NL
Printed(out, w) == \E i \in 1..Len(out) : out[i] = w

\* where the final extension of a path string starts: at its last dot,
\* when that dot is neither the first nor the last character of the final
\* component; past the end when there is no such dot
ExtStart(full) ==
    LET cands == {k \in 2..Len(full) :
                     /\ full[k] = "." /\ k < Len(full) /\ full[k - 1] # "/"
                     /\ \A j \in (k + 1)..Len(full) : full[j] \notin {".", "/"}}
    IN  IF cands = {} THEN Len(full) + 1 ELSE CHOOSE k \in cands : TRUE
ReplaceExt(full) == SubSeq(full, 1, ExtStart(full) - 1) \o S_html

C2_FileNotFound ==
    ( /\ pc = "done" /\ Parsed /\ ~interrupted
      /\ IsPathInput(args_input)
      /\ Lookup(fs0, Norm(args_input)).kind = "absent" ) =>
        /\ exit_code = 1
        /\ uncaught = "none"
        /\ stderr = << <<"Error: ", "File '">> \o args_input \o <<"' not found", "\n">> >>
        /\ stdout = <<>>
        /\ fs = fs0

\* C2 witness: the missing input is named in a form pathlib would rewrite,
\* and an output argument is given
C2_Witness ==
    /\ pc = "done" /\ Parsed /\ ~interrupted
    /\ args_input = <<".", "/", "a">>
    /\ args_output = <<"o", ".", "h", "t", "m", "l">>
    /\ Lookup(fs0, <<"a">>).kind = "absent"
    /\ exit_code = 1

(***************************************************************************)
(* C3: the effective destination is the output argument when given and     *)
(* the derived path otherwise.  "Converted to <destination>" is on         *)
(* standard output only when the destination is not "-" and the file at    *)
(* the destination already holds the html; in a finished run to which no   *)
(* interrupt was delivered it is there exactly when the run succeeded and  *)
(* the destination is not "-"; a successful run to "-" puts the html and a *)
(* newline on standard output and nothing else.                            *)
(***************************************************************************)
C3_Confirmation ==
    output_path # None =>
        /\ args_output # None => output_path = args_output
        /\ args_output = None => output_path = get_default_output_path(args_input).val
        /\ \A i \in 1..Len(stdout) :
              stdout[i][1] = "Converted to " =>
                 /\ stdout[i] = ConfirmLine(output_path)
                 /\ output_path # S_dash
                 /\ Ran("write")
                 /\ Lookup(fs, Norm(output_path)) = File(html)
        /\ (pc = "done" /\ ~interrupted) =>
              /\ Printed(stdout, ConfirmLine(output_path))
                    <=> (exit_code = 0 /\ output_path # S_dash)
              /\ (exit_code = 0 /\ output_path = S_dash) => stdout = <<html \o NL>>

\* C3 witness: a successful run with a derived destination has confirmed
C3_Witness ==
    /\ pc = "done" /\ exit_code = 0 /\ ~interrupted
    /\ args_input = <<"a", ".", "m", "d">> /\ args_output = None
    /\ stdout = <<ConfirmLine(<<"a", ".", "h", "t", "m", "l">>)>>

(***************************************************************************)
(* C4: when write_output has returned, a destination of "-" has put        *)
(* exactly the html and one newline on standard output and left the file   *)
(* system alone (no file "-" appears); any other destination holds exactly *)
(* the html, whatever it held before, and standard output got nothing.     *)
(***************************************************************************)
C4_WriteOutput ==
    pc = "confirm" =>
        IF output_path = S_dash
        THEN /\ stdout = <<html \o <<"\n">>>>
             /\ fs = fs0
             /\ Lookup(fs, S_dash) = Lookup(fs0, S_dash)
        ELSE /\ Norm(output_path) \in DOMAIN fs
             /\ fs[Norm(output_path)] = [kind |-> "file", data |-> html]
             /\ stdout = <<>>

\* C4 witness: an existing file has been overwritten
C4_Witness ==
    /\ pc = "confirm"
    /\ output_path = <<"o", ".", "h", "t", "m", "l">>
    /\ Lookup(fs0, output_path) = File(DocOld)
    /\ fs[output_path] = File(<<"<", "p", ">", "#", "T", "<", "/", "p", ">">>)

(***************************************************************************)
(* C5 (as amended): read_input consumes standard input exactly when the    *)
(* input is omitted (None), is the empty string, or is "-", and then       *)
(* returns its content; any other input is a path, standard input is left  *)
(* unread and the text returned is the content of the file at that path.   *)
(***************************************************************************)
C5_ReadInput ==
    /\ ~Ran("read") => ~stdin_consumed
    /\ Ran("read") =>
          /\ stdin_consumed <=> args_input \in {None, <<>>, S_dash}
          /\ markdown_text # None =>
                IF stdin_consumed
                THEN markdown_text = stdin
                ELSE markdown_text = Lookup(fs0, Norm(args_input)).data

\* C5 witness: the empty string has been read as standard input
C5_Witness ==
    /\ Ran("read") /\ args_input = <<>> /\ stdin_consumed
    /\ markdown_text = DocA

\* C5 as stated: only None and "-" are standard input
C5_Original ==
    Ran("read") => (stdin_consumed <=> args_input \in {None, S_dash})

(***************************************************************************)
(* C6: a run that reaches the try block and gets no interrupt ends with    *)
(* no exception leaving main, either with exit code 0 or with exit code 1  *)
(* and the single line "Error: <message>" on standard error.               *)
(***************************************************************************)
C6_AllFailuresCaught ==
    (pc = "done" /\ Ran("read") /\ ~interrupted) =>
        /\ uncaught = "none"
        /\ \/ exit_code = 0 /\ stderr = <<>>
           \/ /\ exit_code = 1
              /\ Len(stderr) = 1
              /\ stderr[1][1] = "Error: "

(***************************************************************************)
(* C7: a run to which an interrupt was delivered, at whatever point, ends  *)
(* with "Interrupted" written to standard error, exit code 1 and no        *)
(* exception leaving main.                                                 *)
(***************************************************************************)
C7_InterruptHandled ==
    (pc = "done" /\ interrupted) =>
        /\ uncaught = "none"
        /\ exit_code = 1
        /\ Printed(stderr, <<"\n", "Interrupted", "\n">>)

(***************************************************************************)
(* C8: at every point of a run, every path other than the effective        *)
(* destination holds what it held before the run; while the write step     *)
(* has not started, or when the destination is "-", the whole file system  *)
(* is as it was.                                                           *)
(***************************************************************************)
C8_Frame ==
    /\ \A k \in DOMAIN fs \cup DOMAIN fs0 :
          (output_path \in {None, S_dash} \/ k # Norm(output_path))
              => Lookup(fs, k) = Lookup(fs0, k)
    /\ (~Ran("write") \/ output_path = S_dash) => fs = fs0

\* C8 witness: the destination was written while the input file and an
\* unrelated file exist beside it
C8_Witness ==
    /\ pc = "done" /\ exit_code = 0
    /\ args_input = <<"a", ".", "m", "d">>
    /\ args_output = <<".", "/", "o">>
    /\ Lookup(fs0, <<"o">>) = File(DocOld)
    /\ fs = Put(fs0, <<"o">>, File(convert_markdown_to_html(DocA)))
    /\ fs # fs0

(***************************************************************************)
(* C9: the steps a run has started are always an initial part of parse,    *)
(* derive, read, convert, write, confirm (so each at most once and in that *)
(* order); the write step starts only with the text read and the html      *)
(* converted from it; and once a step has failed (main is in an except     *)
(* clause or the process has ended) no further step starts.                *)
(***************************************************************************)
C9_Sequential ==
    /\ [](/\ Len(steps) <= Len(Order)
          /\ steps = SubSeq(Order, 1, Len(steps))
          /\ Ran("write") =>
                /\ markdown_text # None
                /\ html = convert_markdown_to_html(markdown_text))
    /\ [][(pc \in {"except", "done"}) => (steps' = steps)]_vars

\* C9 witness: the write step failed and the run ended without confirming
C9_Witness ==
    /\ pc = "done" /\ exit_code = 1 /\ ~interrupted
    /\ steps = <<"parse", "derive", "read", "convert", "write">>

(***************************************************************************)
(* C10: a successful run with an explicit input path and no output         *)
(* argument derives a destination other than the input and leaves the      *)
(* input file as it was.                                                   *)
(***************************************************************************)
C10_InputPreserved ==
    (pc = "done" /\ exit_code = 0 /\ Ran("read")
        /\ args_output = None /\ IsPathInput(args_input)) =>
        /\ Norm(output_path) # Norm(args_input)
        /\ Lookup(fs, Norm(args_input)) = Lookup(fs0, Norm(args_input))

====
